---------------------------- MODULE Spec2Model ----------------------------
(***************************************************************************)
(* GroqAPIALMTranslate.process_translation_request                         *)
(* (src/nodes/groq_api_alm_translate.py, lines 76-180) as a state machine. *)
(*                                                                         *)
(* One call of the handler is modelled: Prepare is the straight-line part  *)
(* before the retry loop (file validation, extension validation, file      *)
(* read, prompt preparation, wire format selection, request data), and    *)
(* each iteration of the retry loop is one step: the POST raises, or      *)
(* answers with a status other than 200, or answers 200 and the body is   *)
(* shaped.  Exhausted is the fall-through after the loop.                  *)
(*                                                                         *)
(* Python strings are sequences of pieces (one-character strings, or      *)
(* literal chunks of the source); None is a record with isNone = TRUE.     *)
(* Python floats are IEEE-754 doubles, modelled bit by bit where the code  *)
(* does arithmetic on them (the timestamp of a segment).                   *)
(***************************************************************************)
EXTENDS Integers, Sequences, FiniteSets, TLC

VARIABLES
    args,       \* the arguments of the call
    fs,         \* what the file system answers for args.file_path
    pc,         \* "call", "loop", "done" (returned), "raised" (exception escaped)
    data,       \* the form fields of the request (line 118-124)
    outcomes,   \* how each attempt of the retry loop ended, in order
    sleeps,     \* number of time.sleep(2) calls made
    response,   \* the last HTTP response received
    result      \* the returned triple, once pc = "done"

vars == <<args, fs, pc, data, outcomes, sleeps, response, result>>

----------------------------------------------------------------------------
(* Bounds of the model *)

\* largest max_retries explored
MaxRetries == 3

\* largest number of segments in a response body explored by ShapeSpec
MaxSegs == 2

----------------------------------------------------------------------------
(* Python strings *)

Whitespace == {" ", "\n", "\t"}

RECURSIVE LStrip(_)
\* str.lstrip(): leading whitespace removed
LStrip(s) ==
    IF s # <<>> /\ Head(s) \in Whitespace THEN LStrip(Tail(s)) ELSE s

RECURSIVE RStrip(_)
\* str.rstrip(): trailing whitespace removed
RStrip(s) ==
    IF s # <<>> /\ s[Len(s)] \in Whitespace
    THEN RStrip(SubSeq(s, 1, Len(s) - 1))
    ELSE s

\* str.strip(): whitespace removed from both ends
PyStrip(s) == LStrip(RStrip(s))

RECURSIVE Flatten(_)
\* concatenation of a sequence of strings
Flatten(ss) ==
    IF ss = <<>> THEN <<>> ELSE Head(ss) \o Flatten(Tail(ss))

\* Python None, and a string value, for an optional string
None == [isNone |-> TRUE, chars |-> <<>>]
Str(s) == [isNone |-> FALSE, chars |-> s]

\* truthiness of an optional string: None and "" are falsy
Truthy(v) == ~v.isNone /\ v.chars # <<>>

----------------------------------------------------------------------------
(* Class constants *)

PLACEHOLDER == "[user_input]"

DEFAULT_PROMPT ==
    <<"Translate the audio file using the style and guidance of ", PLACEHOLDER>>

TRANSLATION_MODELS == {"whisper-large-v3"}

SUPPORTED_AUDIO_FORMATS ==
    { <<"m","p","3">>, <<"m","p","4">>, <<"m","p","e","g">>, <<"m","p","g","a">>,
      <<"m","4","a">>, <<"w","a","v">>, <<"w","e","b","m">> }

RESPONSE_FORMATS ==
    {"json", "verbose_json", "text", "text_with_timestamps", "text_with_linebreaks"}

\* self.prompt_options: preset name -> template, as loaded at construction
prompt_options ==
    [ formal |-> <<"Keep the tone formal. ", PLACEHOLDER>>,
      bare   |-> <<PLACEHOLDER>>,
      twice  |-> <<PLACEHOLDER, " / ", PLACEHOLDER>>,
      fixed  |-> <<"Names are spelled as in the source.">> ]

PresetNames == DOMAIN prompt_options

\* the preset argument: the default prompt itself, or a name of prompt_options
DefaultPreset == [isDefault |-> TRUE, name |-> "default"]
NamedPreset(n) == [isDefault |-> FALSE, name |-> n]
Presets == {DefaultPreset} \cup {NamedPreset(n) : n \in PresetNames}

----------------------------------------------------------------------------
(* Inputs explored *)

FilePaths ==
    { <<"a", ".", "m", "p", "3">>,
      <<"a", ".", "b", ".", "W", "A", "V">>,
      <<"w", "e", "b", "m">>,
      <<"a", ".", "t", "x", "t">>,
      <<"a", ".">> }

\* os.path.isfile(file_path), and whether open()/read() succeed
FileSystems ==
    { [isfile |-> FALSE, readable |-> FALSE],
      [isfile |-> TRUE,  readable |-> FALSE],
      [isfile |-> TRUE,  readable |-> TRUE] }

UserInputs ==
    { None, Str(<<>>), Str(<<" ">>), Str(<<"u">>), Str(<<" ", "u", "\n">>) }

\* the five formats the node offers, and one it does not
RequestedFormats == RESPONSE_FORMATS \cup {"srt"}

\* temperature in tenths (the widget's step is 0.1)
Temperatures == {0, 7}

----------------------------------------------------------------------------
(* Result triples *)

\* the first element of a result: a string, the raw text of a response body,
\* or json.dumps(..., indent=4) of a parsed body
NoBody == [kind |-> "none", segments |-> [kind |-> "absent", items |-> <<>>]]
Text(s) == [kind |-> "str", str |-> s, body |-> NoBody]
RawText(b) == [kind |-> "raw", str |-> <<>>, body |-> b]
JsonDumps(b) == [kind |-> "json_indent4", str |-> <<>>, body |-> b]

Triple(t, ok, st) == [text |-> t, success |-> ok, status |-> st]

NoResult == Triple(Text(<<>>), FALSE, "")

\* what a piece of the handler does: returns a triple, raises, or goes on
Return(t) == [kind |-> "return", result |-> t]
Raise == [kind |-> "raise", result |-> NoResult]
Continue == [kind |-> "continue", result |-> NoResult]

----------------------------------------------------------------------------
(* Lines 78-94: the file *)

UpperToLower ==
    [ A |-> "a", V |-> "v", W |-> "w", M |-> "m", P |-> "p" ]

\* str.lower() on one character
LowerChar(c) == IF c \in DOMAIN UpperToLower THEN UpperToLower[c] ELSE c

\* str.lower()
Lower(s) == [i \in 1..Len(s) |-> LowerChar(s[i])]

RECURSIVE LastPart(_, _)
\* s.split(sep)[-1]: what follows the last separator, the whole of s without one
LastPart(s, sep) ==
    IF \E i \in 1..Len(s) : s[i] = sep
    THEN LastPart(Tail(s), sep)
    ELSE s

\* line 83
FileExtension(file_path) == Lower(LastPart(file_path, "."))

\* lines 78-94: Continue when the file was read
ValidateFile(file_path, filesystem) ==
    IF ~filesystem.isfile
    THEN Return(Triple(Text(<<"File not found.">>), FALSE, "400 Bad Request"))
    ELSE IF FileExtension(file_path) \notin SUPPORTED_AUDIO_FORMATS
    THEN Return(Triple(
            Text(<<"Unsupported audio format '">> \o FileExtension(file_path) \o <<"'.">>),
            FALSE, "400 Bad Request"))
    ELSE IF ~filesystem.readable
    THEN Return(Triple(Text(<<"Error reading audio file.">>), FALSE, "400 Bad Request"))
    ELSE Continue

----------------------------------------------------------------------------
(* Lines 96-101: the prompt *)

\* template.replace('[user_input]', value): every placeholder becomes value
Replace(template, value) ==
    Flatten([i \in 1..Len(template) |->
                IF template[i] = PLACEHOLDER THEN value ELSE <<template[i]>>])

\* get_prompt_content(self.prompt_options, preset) for a preset of the mapping
get_prompt_content(options, preset) == options[preset.name]

\* a plausible slip: the guard of the default branch copied to the other one
PreparePromptGuarded(preset, user_input) ==
    IF ~Truthy(user_input)
    THEN [raised |-> FALSE, prompt |-> None]
    ELSE IF preset.isDefault
    THEN [raised |-> FALSE,
          prompt |-> Str(Replace(DEFAULT_PROMPT, PyStrip(user_input.chars)))]
    ELSE [raised |-> FALSE,
          prompt |-> Str(Replace(get_prompt_content(prompt_options, preset),
                                 PyStrip(user_input.chars)))]

\* lines 97-101; user_input.strip() on None raises AttributeError (line 101)
PreparePrompt(preset, user_input) ==
    IF preset.isDefault
    THEN [raised |-> FALSE,
          prompt |-> IF Truthy(user_input)
                     THEN Str(Replace(DEFAULT_PROMPT, PyStrip(user_input.chars)))
                     ELSE None]
    ELSE IF user_input.isNone
    THEN [raised |-> TRUE, prompt |-> None]
    ELSE [raised |-> FALSE,
          prompt |-> Str(Replace(get_prompt_content(prompt_options, preset),
                                 PyStrip(user_input.chars)))]

----------------------------------------------------------------------------
(* Lines 107-124: the wire format and the request data *)

\* a plausible slip: the line-break format asked of the API as plain text
ApiResponseFormatPlain(response_format) ==
    IF response_format \in {"json", "verbose_json", "text"}
    THEN response_format
    ELSE IF response_format = "text_with_timestamps"
    THEN "verbose_json"
    ELSE IF response_format = "text_with_linebreaks"
    THEN "text"
    ELSE "unknown"

\* lines 108-113: "unknown" stands for the else branch, which returns
ApiResponseFormat(response_format) ==
    IF response_format \in {"json", "verbose_json", "text"}
    THEN response_format
    ELSE IF response_format \in {"text_with_timestamps", "text_with_linebreaks"}
    THEN "verbose_json"
    ELSE "unknown"

\* str(temperature) for a temperature given in tenths
StrTemperature(t) == ToString(t \div 10) \o "." \o ToString(t % 10)

NoData ==
    [model |-> "", response_format |-> "", temperature |-> "",
     hasPrompt |-> FALSE, prompt |-> <<>>]

\* lines 118-124
RequestData(model, api_response_format, temperature, prompt) ==
    [model |-> model,
     response_format |-> api_response_format,
     temperature |-> StrTemperature(temperature),
     hasPrompt |-> Truthy(prompt),
     prompt |-> IF Truthy(prompt) THEN prompt.chars ELSE <<>>]

----------------------------------------------------------------------------
(* Python floats: IEEE-754 binary64, round to nearest, ties to even.        *)
(* A non-negative double is its integer part and the bits of its            *)
(* fractional part, most significant first.                                 *)

\* significant bits of a double (the float arithmetic of lines 157-159)
MantissaBits == 53

RECURSIVE BitLen(_)
\* number of binary digits of n
BitLen(n) == IF n = 0 THEN 0 ELSE 1 + BitLen(n \div 2)

RECURSIVE DivBits(_, _, _)
\* the first n binary digits of r/d (r < d) and the remainder left after them
\* (long division, the digits of the second half from the remainder of the first)
DivBits(r, d, n) ==
    IF n = 0
    THEN [bits |-> <<>>, rem |-> r]
    ELSE IF n = 1
    THEN [bits |-> <<(2 * r) \div d>>, rem |-> (2 * r) % d]
    ELSE LET first  == DivBits(r, d, n \div 2)
             second == DivBits(first.rem, d, n - n \div 2)
         IN  [bits |-> first.bits \o second.bits, rem |-> second.rem]

\* number of zero digits before the first one
LeadingZeros(bits) ==
    IF \E i \in 1..Len(bits) : bits[i] = 1
    THEN (CHOOSE i \in 1..Len(bits) :
             bits[i] = 1 /\ \A j \in 1..(i - 1) : bits[j] = 0) - 1
    ELSE Len(bits)

\* bits plus one unit in the last place: the new bits and the carry out
Increment(bits) ==
    IF \E i \in 1..Len(bits) : bits[i] = 0
    THEN LET z == CHOOSE i \in 1..Len(bits) :
                      bits[i] = 0 /\ \A j \in (i + 1)..Len(bits) : bits[j] = 1
         IN  [bits  |-> [i \in 1..Len(bits) |->
                            IF i < z THEN bits[i] ELSE IF i = z THEN 1 ELSE 0],
              carry |-> 0]
    ELSE [bits |-> [i \in 1..Len(bits) |-> 0], carry |-> 1]

\* bits rounded to its first keep digits (keep >= 1), to nearest, ties to even;
\* sticky says that non-zero digits follow bits
RoundNearestEven(bits, keep, sticky) ==
    IF Len(bits) <= keep
    THEN [bits |-> bits, carry |-> 0]
    ELSE LET kept  == SubSeq(bits, 1, keep)
             guard == bits[keep + 1]
             more  == sticky \/ \E j \in (keep + 2)..Len(bits) : bits[j] = 1
             up    == guard = 1 /\ (more \/ bits[keep] = 1)
         IN  IF up THEN Increment(kept) ELSE [bits |-> kept, carry |-> 0]

\* digits kept after the binary point by a double whose value is n + 0.bits
FractionDigits(n, bits) ==
    IF n > 0 THEN MantissaBits - BitLen(n) ELSE LeadingZeros(bits) + MantissaBits

\* json.loads of the number written ms/1000 (a whole number of milliseconds):
\* the nearest double; a whole number of seconds is exact
JsonNumber(ms) ==
    LET whole == ms \div 1000
        r     == ms % 1000
        keep  == FractionDigits(whole, DivBits(r, 1000, 10).bits)
        d     == DivBits(r, 1000, keep + 1)
        rn    == RoundNearestEven(d.bits, keep, d.rem # 0)
    IN  IF r = 0
        THEN [int |-> whole, frac |-> <<>>]
        ELSE [int |-> whole + rn.carry,
              frac |-> IF rn.carry = 1 THEN <<>> ELSE rn.bits]

RECURSIVE MulFraction(_, _, _, _, _)
\* digits lo..hi of 0.bits * k, exactly, given the carry into digit hi: the
\* digits and the carry out of digit lo.  The right half is worked out first
\* (the test on its carry, which is never negative, makes it so): its carry out
\* is the carry into the left half
MulFraction(bits, k, lo, hi, carry) ==
    IF lo > hi
    THEN [int |-> carry, bits |-> <<>>]
    ELSE IF lo = hi
    THEN [int |-> (bits[lo] * k + carry) \div 2,
          bits |-> <<(bits[lo] * k + carry) % 2>>]
    ELSE LET mid   == (lo + hi) \div 2
             right == MulFraction(bits, k, mid + 1, hi, carry)
         IN  IF right.int < 0
             THEN right
             ELSE LET left == MulFraction(bits, k, lo, mid, right.int)
                  IN  [int |-> left.int, bits |-> left.bits \o right.bits]

\* int(x * k) for a double 0 <= x < 1 given by its bits: the product is
\* rounded to a double, then truncated
IntOfProduct(bits, k) ==
    LET p  == MulFraction(bits, k, 1, Len(bits), 0)
        rn == RoundNearestEven(p.bits, FractionDigits(p.int, p.bits), FALSE)
    IN  p.int + rn.carry

----------------------------------------------------------------------------
(* Lines 155-162: the timestamp of a segment *)

RECURSIVE Digits(_)
\* decimal digits of n >= 0
Digits(n) ==
    IF n < 10 THEN <<ToString(n)>> ELSE Digits(n \div 10) \o <<ToString(n % 10)>>

RECURSIVE ZeroPad(_, _)
\* format spec 0<width>d: zero-padded to at least width digits
ZeroPad(digits, width) ==
    IF Len(digits) >= width THEN digits ELSE ZeroPad(<<"0">> \o digits, width)

\* line 157: int(start_time // 60)
Minutes(x) == x.int \div 60

\* line 158: int(start_time % 60)
Seconds(x) == x.int % 60

\* line 159: int((start_time - int(start_time)) * 1000); the subtraction is exact
Milliseconds(x) == IntOfProduct(x.frac, 1000)

\* line 160
Timestamp(x) ==
    <<"[">> \o ZeroPad(Digits(Minutes(x)), 2) \o <<":">>
            \o ZeroPad(Digits(Seconds(x)), 2) \o <<".">>
            \o ZeroPad(Digits(Milliseconds(x)), 3) \o <<"]">>

----------------------------------------------------------------------------
(* Response bodies.  A body is text that is not JSON, a JSON value that is  *)
(* not an object, or a JSON object; of an object only the "segments" member *)
(* is read: absent, null, or an array.  A segment is a JSON object with     *)
(* optional "start" and "text" members, or some other JSON value.           *)

Absent == "absent"

StartAbsent == [kind |-> Absent, ms |-> 0]
StartNumber(ms) == [kind |-> "number", ms |-> ms]
StartString == [kind |-> "string", ms |-> 0]
StartNull == [kind |-> "null", ms |-> 0]

TextAbsent == [kind |-> Absent, chars |-> <<>>]
TextString(cs) == [kind |-> "string", chars |-> cs]
TextNull == [kind |-> "null", chars |-> <<>>]

Segment(start, text) == [isObject |-> TRUE, start |-> start, text |-> text]
NotASegment == [isObject |-> FALSE, start |-> StartAbsent, text |-> TextAbsent]

NoSegments == [kind |-> Absent, items |-> <<>>]
NotJson == [kind |-> "not_json", segments |-> NoSegments]
JsonNotObject == [kind |-> "not_object", segments |-> NoSegments]
JsonObject(segs) == [kind |-> "object", segments |-> segs]
SegmentArray(items) == [kind |-> "array", items |-> items]
SegmentsNull == [kind |-> "null", items |-> <<>>]

\* start times explored, in milliseconds
StartSamples == {0, 1, 1001, 2300, 59999, 65250, 6000125}

\* segment texts explored
TextSamples ==
    { <<>>, <<"h", "i">>, <<" ", "b", "y", "e", " ">>, <<" ", "\n">>, <<"\n", "a", " ", "b">> }

SegmentSamples ==
    {Segment(StartNumber(ms), TextString(<<"h", "i">>)) : ms \in StartSamples}
    \cup {Segment(StartAbsent, TextString(t)) : t \in TextSamples}
    \cup {Segment(StartNumber(0), TextAbsent), Segment(StartNull, TextString(<<"a">>)),
          Segment(StartString, TextString(<<"a">>)), Segment(StartAbsent, TextNull),
          NotASegment}

\* sequences of at most n elements of S
SeqUpTo(S, n) == UNION {[1..k -> S] : k \in 0..n}

\* bodies explored by Spec
SampleBodies ==
    { NotJson, JsonNotObject, JsonObject(NoSegments), JsonObject(SegmentsNull),
      JsonObject(SegmentArray(<<Segment(StartNumber(65250), TextString(<<"h", "i">>)),
                                Segment(StartNumber(0), TextString(<<"b", "y", "e">>))>>)),
      JsonObject(SegmentArray(<<Segment(StartAbsent, TextNull)>>)) }

\* bodies explored by ShapeSpec
ShapeBodies ==
    SampleBodies
    \cup {JsonObject(SegmentArray(items)) : items \in SeqUpTo(SegmentSamples, MaxSegs)}

----------------------------------------------------------------------------
(* Lines 133-173: shaping a 200 response *)

\* segment.get('start', 0)
GetStart(segment) == IF segment.start.kind = Absent THEN 0 ELSE segment.start.ms

\* segment.get('text', '')
GetText(segment) == IF segment.text.kind = Absent THEN <<>> ELSE segment.text.chars

\* lines 155-162 raise: the segment has no get(), the start is no number
\* (// on a str or None), or the text has no strip()
TimestampRaises(segment) ==
    \/ ~segment.isObject
    \/ segment.start.kind \in {"string", "null"}
    \/ segment.text.kind = "null"

\* line 169 raises: the segment has no get(), or the text has no strip()
LinebreakRaises(segment) ==
    \/ ~segment.isObject
    \/ segment.text.kind = "null"

\* lines 155-162, one turn of the loop: what is added to translation_text
TimestampLine(segment) ==
    Timestamp(JsonNumber(GetStart(segment))) \o PyStrip(GetText(segment)) \o <<"\n">>

\* lines 169-170, one turn of the loop
LinebreakLine(segment) == PyStrip(GetText(segment)) \o <<"\n">>

\* lines 153-163: translation_text.strip() after the loop
TimestampText(items) ==
    PyStrip(Flatten([i \in 1..Len(items) |-> TimestampLine(items[i])]))

\* a plausible slip: rstrip() for strip() at line 171
LinebreakTextTailOnly(items) ==
    RStrip(Flatten([i \in 1..Len(items) |-> LinebreakLine(items[i])]))

\* lines 167-171: translation_text.strip() after the loop
LinebreakText(items) ==
    PyStrip(Flatten([i \in 1..Len(items) |-> LinebreakLine(items[i])]))

\* response_json.get('segments', []) and the loop over it raise: the parsed
\* body has no get(), or null is iterated, or a turn of the loop raises
SegmentsRaise(body, response_format) ==
    \/ body.kind # "object"
    \/ body.segments.kind = "null"
    \/ \E i \in 1..Len(body.segments.items) :
          IF response_format = "text_with_timestamps"
          THEN TimestampRaises(body.segments.items[i])
          ELSE LinebreakRaises(body.segments.items[i])

\* a plausible slip: the parse failure reported as a success
ParseFailureAsSuccess ==
    Triple(Text(<<"Error parsing JSON response.">>), TRUE,
           "200 OK but failed to parse JSON")

\* line 143
ParseFailure ==
    Triple(Text(<<"Error parsing JSON response.">>), FALSE,
           "200 OK but failed to parse JSON")

\* lines 134-173, the body of "if response.status_code == 200"
Shape200(response_format, api_response_format, body) ==
    IF api_response_format = "text"
    THEN IF response_format = "text"
         THEN Return(Triple(RawText(body), TRUE, "200 OK"))
         ELSE Continue
    ELSE IF api_response_format \in {"json", "verbose_json"}
    THEN IF body.kind = "not_json"
         THEN Return(ParseFailure)
         ELSE IF response_format \in {"json", "verbose_json"}
         THEN Return(Triple(JsonDumps(body), TRUE, "200 OK"))
         ELSE IF response_format = "text_with_timestamps"
         THEN IF SegmentsRaise(body, response_format)
              THEN Raise
              ELSE Return(Triple(Text(TimestampText(body.segments.items)), TRUE, "200 OK"))
         ELSE IF response_format = "text_with_linebreaks"
         THEN IF SegmentsRaise(body, response_format)
              THEN Raise
              ELSE Return(Triple(Text(LinebreakText(body.segments.items)), TRUE, "200 OK"))
         ELSE Continue
    ELSE Return(Triple(Text(<<"Unknown api_response_format.">>), FALSE, "400 Bad Request"))

----------------------------------------------------------------------------
(* The call *)

\* seconds slept after a failed request (line 179)
RetryDelay == 2

\* responses with a status other than 200
ErrorResponses ==
    { [status_code |-> 429, reason |-> "Too Many Requests", body |-> JsonObject(NoSegments)],
      [status_code |-> 500, reason |-> "Internal Server Error", body |-> NotJson],
      [status_code |-> 201, reason |-> "OK", body |-> JsonNotObject] }

OkResponse(body) == [status_code |-> 200, reason |-> "OK", body |-> body]

NoResponse == [status_code |-> 0, reason |-> "", body |-> NoBody]

\* f"{response.status_code} {response.reason}"
StatusLine(resp) == ToString(resp.status_code) \o " " \o resp.reason

Arguments ==
    [ model : TRANSLATION_MODELS, file_path : FilePaths, preset : Presets,
      user_input : UserInputs, response_format : RequestedFormats,
      temperature : Temperatures, max_retries : 1..MaxRetries ]

Init ==
    /\ args \in Arguments
    /\ fs \in FileSystems
    /\ pc = "call"
    /\ data = NoData
    /\ outcomes = <<>>
    /\ sleeps = <<>>
    /\ response = NoResponse
    /\ result = NoResult

\* lines 78-126: everything before the retry loop
Prepare ==
    /\ pc = "call"
    /\ LET file   == ValidateFile(args.file_path, fs)
           p      == PreparePrompt(args.preset, args.user_input)
           format == ApiResponseFormat(args.response_format)
       IN  IF file.kind = "return"
           THEN /\ pc' = "done"
                /\ result' = file.result
                /\ data' = data
           ELSE IF p.raised
           THEN /\ pc' = "raised"
                /\ UNCHANGED <<result, data>>
           ELSE IF format = "unknown"
           THEN /\ pc' = "done"
                /\ result' = Triple(Text(<<"Unknown response format.">>), FALSE,
                                    "400 Bad Request")
                /\ data' = data
           ELSE /\ pc' = "loop"
                /\ data' = RequestData(args.model, format, args.temperature, p.prompt)
                /\ result' = result
    /\ UNCHANGED <<args, fs, outcomes, sleeps, response>>

\* the loop has a turn left (line 129)
InLoop == pc = "loop" /\ Len(outcomes) < args.max_retries

\* a plausible slip: the next attempt made at once
OnExceptionNoSleep ==
    /\ outcomes' = Append(outcomes, "exception")
    /\ UNCHANGED <<args, fs, pc, data, sleeps, response, result>>

\* lines 177-179: the request raised
OnException ==
    /\ outcomes' = Append(outcomes, "exception")
    /\ sleeps' = Append(sleeps, RetryDelay)
    /\ UNCHANGED <<args, fs, pc, data, response, result>>

\* requests.post raises (line 131)
AttemptRaises == InLoop /\ OnException

\* a plausible slip: a status other than 200 handled like a failed request
OnErrorStatusRetried(resp) ==
    /\ response' = resp
    /\ outcomes' = Append(outcomes, "status_other")
    /\ sleeps' = Append(sleeps, RetryDelay)
    /\ UNCHANGED <<args, fs, pc, data, result>>

\* lines 174-176
OnErrorStatus(resp) ==
    /\ response' = resp
    /\ outcomes' = Append(outcomes, "status_other")
    /\ result' = Triple(RawText(resp.body), FALSE, StatusLine(resp))
    /\ pc' = "done"
    /\ UNCHANGED <<args, fs, data, sleeps>>

\* the response has a status other than 200
AttemptErrorStatus == InLoop /\ \E resp \in ErrorResponses : OnErrorStatus(resp)

\* lines 133-173 and, when shaping raises, lines 177-179
On200(body) ==
    LET shaped == Shape200(args.response_format, data.response_format, body)
    IN  /\ response' = OkResponse(body)
        /\ IF shaped.kind = "return"
           THEN /\ outcomes' = Append(outcomes, "status_200_returned")
                /\ result' = shaped.result
                /\ pc' = "done"
                /\ sleeps' = sleeps
           ELSE IF shaped.kind = "raise"
           THEN /\ outcomes' = Append(outcomes, "status_200_raised")
                /\ sleeps' = Append(sleeps, RetryDelay)
                /\ UNCHANGED <<pc, result>>
           ELSE /\ outcomes' = Append(outcomes, "status_200_passed")
                /\ UNCHANGED <<pc, result, sleeps>>
        /\ UNCHANGED <<args, fs, data>>

\* the response has status 200
Attempt200 == InLoop /\ \E body \in SampleBodies : On200(body)

\* a plausible slip: another message after the loop
ExhaustedResultReworded ==
    Triple(Text(<<"Failed after all retries.">>), FALSE, "500 Failed after all retries")

\* line 180
ExhaustedResult ==
    Triple(Text(<<"Failed after all retries.">>), FALSE, "Failed after all retries")

\* line 180: the loop ended without a return
Exhausted ==
    /\ pc = "loop"
    /\ Len(outcomes) >= args.max_retries
    /\ pc' = "done"
    /\ result' = ExhaustedResult
    /\ UNCHANGED <<args, fs, data, outcomes, sleeps, response>>

Next ==
    \/ Prepare
    \/ AttemptRaises
    \/ AttemptErrorStatus
    \/ Attempt200
    \/ Exhausted

Spec == Init /\ [][Next]_vars

----------------------------------------------------------------------------
(* The shaping of a 200 response on its own: one call with a readable audio *)
(* file and a single attempt, the body drawn from ShapeBodies.              *)

ShapeArguments ==
    { a \in Arguments :
        /\ a.file_path = <<"a", ".", "m", "p", "3">>
        /\ a.preset = DefaultPreset
        /\ a.user_input = None
        /\ a.response_format \in RESPONSE_FORMATS
        /\ a.temperature = 0
        /\ a.max_retries = 1 }

ShapeInit ==
    /\ Init
    /\ args \in ShapeArguments
    /\ fs = [isfile |-> TRUE, readable |-> TRUE]

ShapeAttempt200 == InLoop /\ \E body \in ShapeBodies : On200(body)

ShapeNext ==
    \/ Prepare
    \/ ShapeAttempt200
    \/ Exhausted

ShapeSpec == ShapeInit /\ [][ShapeNext]_vars

----------------------------------------------------------------------------
(* Properties *)

Status200 == {"status_200_returned", "status_200_raised", "status_200_passed"}

\* the attempts before the last one all ended in a failed request
OnlyExceptionsBeforeLast ==
    \A i \in 1..(Len(outcomes) - 1) : outcomes[i] = "exception"

\* a body the shaping of the requested format goes through without raising
\* and without a parse failure
WellFormed(response_format, body) ==
    IF response_format = "text"
    THEN TRUE
    ELSE IF response_format \in {"json", "verbose_json"}
    THEN body.kind # "not_json"
    ELSE /\ body.kind = "object"
         /\ body.segments.kind \in {Absent, "array"}
         /\ \A i \in 1..Len(body.segments.items) :
               LET seg == body.segments.items[i]
               IN  /\ seg.isObject
                   /\ seg.text.kind \in {Absent, "string"}
                   /\ response_format = "text_with_timestamps"
                         => seg.start.kind \in {Absent, "number"}

\* C1: every call ends by returning a triple, no exception reaches the caller,
\* and every failure is a triple with success = FALSE.
C1_NoExceptionEscapes ==
    /\ pc # "raised"
    /\ pc = "done" /\ result.status # "200 OK" => result.success = FALSE

\* C2: an attempt that receives HTTP 200 returns in that same attempt whatever
\* the body is: it is the last attempt, the call is over, and no sleep follows it
\* (the sleeps are those of the attempts before it).
C2_ReturnsOn200 ==
    \A i \in 1..Len(outcomes) :
        outcomes[i] \in Status200
            => /\ i = Len(outcomes)
               /\ pc = "done"
               /\ Len(sleeps) = i - 1

\* C3: an attempt that receives a status other than 200 returns at once
\* (raw body, FALSE, "<code> <reason>"): it is the last attempt, the call is
\* over, and no sleep follows it, at every attempt index and max_retries.
C3_ErrorStatusReturnsAtOnce ==
    \A i \in 1..Len(outcomes) :
        outcomes[i] = "status_other"
            => /\ i = Len(outcomes)
               /\ pc = "done"
               /\ Len(sleeps) = i - 1
               /\ response.status_code # 200
               /\ result.text = [kind |-> "raw", str |-> <<>>, body |-> response.body]
               /\ result.success = FALSE
               /\ result.status = ToString(response.status_code) \o " " \o response.reason

\* C3 witness: a 429 on the second of three attempts, after one failed request
C3_Witness ==
    /\ pc = "done"
    /\ args.max_retries = 3
    /\ outcomes = <<"exception", "status_other">>
    /\ sleeps = <<2>>
    /\ result.status = "429 Too Many Requests"
    /\ result.success = FALSE

\* C4: k failed requests (k < max_retries) followed by a well-formed 200 give
\* exactly k sleeps of 2 seconds, k + 1 attempts and the success result of the
\* last response; no run makes more than max_retries attempts.
C4_RetryThenSuccess ==
    /\ Len(outcomes) <= args.max_retries
    /\ ( /\ outcomes # <<>>
         /\ outcomes[Len(outcomes)] \in Status200
         /\ OnlyExceptionsBeforeLast
         /\ WellFormed(args.response_format, response.body) )
       => /\ pc = "done"
          /\ sleeps = [i \in 1..(Len(outcomes) - 1) |-> 2]
          /\ result.success = TRUE
          /\ result.status = "200 OK"
          /\ result.text.kind =
                 ( IF args.response_format = "text" THEN "raw"
                   ELSE IF args.response_format \in {"json", "verbose_json"}
                   THEN "json_indent4" ELSE "str" )
          /\ result.text.kind # "str" => result.text.body = response.body

\* C4 witness: two failed requests, then success on the third of three attempts
C4_Witness ==
    /\ pc = "done"
    /\ args.max_retries = 3
    /\ args.response_format = "text_with_timestamps"
    /\ outcomes = <<"exception", "exception", "status_200_returned">>
    /\ sleeps = <<2, 2>>
    /\ result.success = TRUE

\* C5: when every one of the max_retries attempts fails with an exception the
\* call ends after exactly max_retries attempts with ("Failed after all
\* retries.", FALSE, "Failed after all retries"), and that triple is returned
\* only after max_retries attempts that each ended in an exception (of the
\* request, or of the shaping of a 200 response, which line 177 catches too).
C5_FailedAfterAllRetries ==
    /\ pc = "loop" => Len(outcomes) <= args.max_retries
    /\ ( /\ pc = "done"
         /\ outcomes # <<>>
         /\ \A i \in 1..Len(outcomes) : outcomes[i] = "exception" )
       => /\ Len(outcomes) = args.max_retries
          /\ result.text = [kind |-> "str", str |-> <<"Failed after all retries.">>,
                            body |-> NoBody]
          /\ result.success = FALSE
          /\ result.status = "Failed after all retries"
    /\ ( /\ pc = "done"
         /\ result.status = "Failed after all retries" )
       => /\ Len(outcomes) = args.max_retries
          /\ Len(sleeps) = args.max_retries
          /\ \A i \in 1..Len(outcomes) :
                outcomes[i] \in {"exception", "status_200_raised"}

\* C5 witness: three of three attempts failed and the call returned
C5_Witness ==
    /\ pc = "done"
    /\ args.max_retries = 3
    /\ outcomes = <<"exception", "exception", "exception">>
    /\ result.status = "Failed after all retries"

----------------------------------------------------------------------------
(* What trimming means, stated without the operators of the model *)

AllWhitespace(s) == \A i \in 1..Len(s) : s[i] \in Whitespace

\* t is s without its trailing whitespace
IsTailTrimOf(t, s) ==
    /\ t = <<>> \/ t[Len(t)] \notin Whitespace
    /\ Len(t) <= Len(s)
    /\ SubSeq(s, 1, Len(t)) = t
    /\ AllWhitespace(SubSeq(s, Len(t) + 1, Len(s)))

\* t is s without its leading and trailing whitespace
IsTrimOf(t, s) ==
    /\ t = <<>> \/ (t[1] \notin Whitespace /\ t[Len(t)] \notin Whitespace)
    /\ \E lead \in 0..Len(s) :
          /\ lead + Len(t) <= Len(s)
          /\ SubSeq(s, lead + 1, lead + Len(t)) = t
          /\ AllWhitespace(SubSeq(s, 1, lead))
          /\ AllWhitespace(SubSeq(s, lead + Len(t) + 1, Len(s)))

\* s without its leading and trailing whitespace
Trimmed(s) ==
    CHOOSE t \in {SubSeq(s, i, j) : i \in 1..(Len(s) + 1), j \in 0..Len(s)} :
        IsTrimOf(t, s)

\* the text member of a segment, "" without one
TextOf(segment) ==
    IF segment.text.kind = "string" THEN segment.text.chars ELSE <<>>

\* the trimmed texts of the segments, each followed by a line break
TrimmedLines(items) ==
    Flatten([i \in 1..Len(items) |-> Trimmed(TextOf(items[i])) \o <<"\n">>])

\* C6 (as claimed): every request sent carries the wire format json->json,
\* verbose_json->verbose_json, text->text, text_with_timestamps->verbose_json,
\* text_with_linebreaks->verbose_json; for any other requested format no
\* request is sent and the result is ("Unknown response format.", FALSE,
\* "400 Bad Request").
C6_WireFormat ==
    /\ (pc = "loop" \/ outcomes # <<>>)
          => /\ args.response_format \in RESPONSE_FORMATS
             /\ data.response_format =
                    ( IF args.response_format \in {"text_with_timestamps",
                                                   "text_with_linebreaks"}
                      THEN "verbose_json" ELSE args.response_format )
             /\ data.response_format \in {"json", "verbose_json", "text"}
    /\ args.response_format \notin RESPONSE_FORMATS
          => /\ outcomes = <<>>
             /\ pc = "done"
                   => result = [text |-> [kind |-> "str",
                                          str |-> <<"Unknown response format.">>,
                                          body |-> NoBody],
                                success |-> FALSE, status |-> "400 Bad Request"]

\* the file passes lines 78-94: it exists, its extension is supported, it is read
FileAccepted ==
    /\ fs.isfile
    /\ fs.readable
    /\ args.file_path \in
           { <<"a", ".", "m", "p", "3">>, <<"a", ".", "b", ".", "W", "A", "V">>,
             <<"w", "e", "b", "m">> }

\* C6 (amended): the wire format of every request is as claimed; for any other
\* requested format no request is sent and the call never succeeds: once the
\* file has passed validation and been read the only triple the call returns
\* is ("Unknown response format.", FALSE, "400 Bad Request"), and a file that
\* fails validation gives that step's own "400 Bad Request" triple instead.
C6_WireFormatAfterValidation ==
    /\ (pc = "loop" \/ outcomes # <<>>)
          => /\ args.response_format \in RESPONSE_FORMATS
             /\ data.response_format =
                    ( IF args.response_format \in {"text_with_timestamps",
                                                   "text_with_linebreaks"}
                      THEN "verbose_json" ELSE args.response_format )
             /\ data.response_format \in {"json", "verbose_json", "text"}
    /\ args.response_format \notin RESPONSE_FORMATS
          => /\ outcomes = <<>>
             /\ pc = "done"
                   => /\ result.success = FALSE
                      /\ result.status = "400 Bad Request"
                      /\ result.text.kind = "str"
                      /\ FileAccepted
                            <=> result.text.str = <<"Unknown response format.">>

\* C6 witness: an unknown format asked for a readable audio file
C6_Witness ==
    /\ pc = "done"
    /\ args.response_format = "srt"
    /\ fs.readable
    /\ outcomes = <<>>
    /\ result.text.str = <<"Unknown response format.">>

\* the response is a 200 whose body the shaping of the requested format accepts
Shaped200(response_format) ==
    /\ args.response_format = response_format
    /\ response.status_code = 200
    /\ WellFormed(response_format, response.body)

\* C7 (as claimed): with text_with_linebreaks the text is the trimmed texts of
\* the segments, each followed by a line break, in array order, with only the
\* trailing whitespace of the whole removed (line breaks of leading empty
\* segments kept); no segments give ""; success = TRUE, status "200 OK".
C7_LinebreaksTailTrimmed ==
    Shaped200("text_with_linebreaks")
        => /\ pc = "done"
           /\ result.success = TRUE
           /\ result.status = "200 OK"
           /\ result.text.kind = "str"
           /\ IsTailTrimOf(result.text.str, TrimmedLines(response.body.segments.items))

\* C7 (amended): as claimed, but the whitespace of the whole is removed at both
\* ends: the line breaks that leading segments with empty text produce are
\* removed like the trailing ones.
C7_LinebreaksBothEndsTrimmed ==
    Shaped200("text_with_linebreaks")
        => /\ pc = "done"
           /\ result.success = TRUE
           /\ result.status = "200 OK"
           /\ result.text.kind = "str"
           /\ IsTrimOf(result.text.str, TrimmedLines(response.body.segments.items))
           /\ response.body.segments.kind = Absent => result.text.str = <<>>

\* C7 witness: a leading segment with empty text, then " bye "
C7_Witness ==
    /\ pc = "done"
    /\ args.response_format = "text_with_linebreaks"
    /\ response.status_code = 200
    /\ response.body.segments.kind = "array"
    /\ Len(response.body.segments.items) = 2
    /\ response.body.segments.items[1].text = [kind |-> "string", chars |-> <<>>]
    /\ response.body.segments.items[2].text =
           [kind |-> "string", chars |-> <<" ", "b", "y", "e", " ">>]
    /\ result.text.str = <<"b", "y", "e">>


\* n in decimal, zero-padded to at least width digits
Padded(n, width) ==
    LET digits == [i \in 1..4 |-> ToString((n \div 10^(4 - i)) % 10)]
        first  == IF n >= 1000 THEN 1 ELSE IF n >= 100 THEN 2
                  ELSE IF n >= 10 THEN 3 ELSE 4
    IN  SubSeq(digits, IF 5 - width < first THEN 5 - width ELSE first, 4)

\* the start member of a segment in whole milliseconds, 0 without one
StartOf(segment) ==
    IF segment.start.kind = "number" THEN segment.start.ms ELSE 0

\* "[MM:SS.mmm]" of a start time of ms milliseconds (under 10000 minutes)
Stamp(ms) ==
    <<"[">> \o Padded(ms \div 60000, 2) \o <<":">>
            \o Padded((ms \div 1000) % 60, 2) \o <<".">>
            \o Padded(ms % 1000, 3) \o <<"]">>

\* the stamped, trimmed texts of the segments, each followed by a line break
StampedLines(items) ==
    Flatten([i \in 1..Len(items) |->
                Stamp(StartOf(items[i])) \o Trimmed(TextOf(items[i])) \o <<"\n">>])

\* C8: with text_with_timestamps every segment gives, in array order, the line
\* "[MM:SS.mmm]" + trimmed text, MM = floor(s / 60) on at least 2 digits,
\* SS = floor(s mod 60) on 2 digits, mmm = the milliseconds of s on 3 digits
\* (s a whole number of milliseconds, 0 without a start); the line break that
\* ends the whole is removed.
C8_TimestampLines ==
    Shaped200("text_with_timestamps")
        => /\ pc = "done"
           /\ result.success = TRUE
           /\ result.status = "200 OK"
           /\ result.text.kind = "str"
           /\ LET lines == StampedLines(response.body.segments.items)
              IN  result.text.str = SubSeq(lines, 1, Len(lines) - 1)

\* the prompt of a named preset for the trimmed user input t
ExpectedPrompt(name, t) ==
    IF name = "formal" THEN <<"Keep the tone formal. ">> \o t
    ELSE IF name = "bare" THEN t
    ELSE IF name = "twice" THEN t \o <<" / ">> \o t
    ELSE <<"Names are spelled as in the source.">>

\* C9: with the default prompt and an empty user_input no request carries a
\* prompt; with the default prompt and a non-empty user_input the prompt field
\* is the default prompt with the placeholder replaced by the trimmed
\* user_input; with any other preset the prompt is its template with every
\* placeholder replaced by the trimmed user_input, also when user_input is ""
\* (the request carries it unless it is the empty string).
C9_Prompt ==
    /\ (args.preset.isDefault /\ (args.user_input.isNone \/ args.user_input.chars = <<>>))
          => data.hasPrompt = FALSE
    /\ (pc = "loop" \/ outcomes # <<>>)
          => /\ (args.preset.isDefault /\ ~args.user_input.isNone
                    /\ args.user_input.chars # <<>>)
                   => /\ data.hasPrompt
                      /\ data.prompt =
                            <<"Translate the audio file using the style and guidance of ">>
                            \o Trimmed(args.user_input.chars)
             /\ ~args.preset.isDefault
                   => /\ ~args.user_input.isNone
                      /\ LET expected == ExpectedPrompt(args.preset.name,
                                                        Trimmed(args.user_input.chars))
                         IN  /\ data.hasPrompt = (expected # <<>>)
                             /\ data.prompt = expected

\* C9 witness: a named preset with an empty user_input, the request sent
C9_Witness ==
    /\ outcomes # <<>>
    /\ args.preset = [isDefault |-> FALSE, name |-> "formal"]
    /\ args.user_input = [isNone |-> FALSE, chars |-> <<>>]
    /\ data.hasPrompt
    /\ data.prompt = <<"Keep the tone formal. ">>

\* C10: a returned triple has success = TRUE exactly when its status is
\* "200 OK"; a 200 response whose body is not JSON gives success = FALSE with
\* "200 OK but failed to parse JSON"; success = TRUE comes only from an attempt
\* that received HTTP 200.
C10_SuccessIffStatus200OK ==
    pc = "done"
        => /\ result.success = TRUE <=> result.status = "200 OK"
           /\ result.success = TRUE
                 => /\ outcomes # <<>>
                    /\ outcomes[Len(outcomes)] = "status_200_returned"
                    /\ response.status_code = 200
           /\ ( /\ outcomes # <<>>
                /\ outcomes[Len(outcomes)] \in Status200
                /\ response.body.kind = "not_json"
                /\ args.response_format # "text" )
                 => /\ result.success = FALSE
                    /\ result.status = "200 OK but failed to parse JSON"
                    /\ result.text.str = <<"Error parsing JSON response.">>

\* C10 witness: a 200 response whose body is not JSON, asked as json
C10_Witness ==
    /\ pc = "done"
    /\ args.response_format = "json"
    /\ response.status_code = 200
    /\ response.body.kind = "not_json"
    /\ result.success = FALSE
    /\ result.status = "200 OK but failed to parse JSON"

=============================================================================
